---- MODULE Spec2Model ----
(***************************************************************************)
(* Model of the Rust back end of apigen: ParserImpl (src/src/main.rs) and  *)
(* Templates (src/src/templates.rs).                                       *)
(*                                                                         *)
(* ParserImpl keeps no state between calls, so every operation is a pure   *)
(* function of its arguments.  A behaviour of the model is one call: Init  *)
(* draws the operation and its arguments from bounded sets, and the action *)
(* of that operation applies it.  The two name normalizers may be applied  *)
(* again to their own result (re-normalization).                           *)
(*                                                                         *)
(* A Rust String is a sequence of characters; a character is a one-letter  *)
(* TLA+ string, except the two-byte numeric character U+0663.              *)
(* Option<T> is a sequence of length 0 (None) or 1 (Some).                 *)
(***************************************************************************)
EXTENDS Integers, Sequences, FiniteSets, TLC

VARIABLES
    op,          \* the operation this behaviour calls
    name,        \* str_to_enum_variant / str_to_variable_name: the argument
    names,       \* the successive results of the normalizer, oldest first
    oas3_type,   \* map_oas3_to_output_type: the schema type tag
    format,      \* map_oas3_to_output_type: Option<&str>
    min_value,   \* map_oas3_to_output_type: Option<Number>
    schema,      \* parse_struct_or_enum: the ObjectOrReference<Schema>
    s,           \* render_struct_template: the types::Struct
    calls,       \* parse_struct_or_enum: the calls it made, in order
    ret          \* the Result returned (Option: <<>> before the call)

vars == <<op, name, names, oas3_type, format, min_value, schema, s, calls, ret>>

(***************************************************************************)
(* Bounds of the model.                                                    *)
(***************************************************************************)
MaxLen == 4        \* longest raw name
MaxApply == 2      \* applications of a normalizer to its own result
MaxFields == 2     \* fields of a rendered struct
MaxProps == 2      \* properties of a schema
MaxEnum == 2       \* enumeration literals of a schema

None == <<>>
Some(x) == <<x>>

(***************************************************************************)
(* Characters.                                                             *)
(***************************************************************************)
ArabicThree == "u0663"    \* ARABIC-INDIC DIGIT THREE: numeric, two bytes
Chars == {"a", "A", "1", "_", "-", " ", ArabicThree}

SeqsUpTo(S, n) == UNION {[1..k -> S] : k \in 0..n}

Strings == SeqsUpTo(Chars, MaxLen)

\* char::is_numeric: the Unicode classes Nd, Nl, No
is_numeric(c) == c \in {"1", ArabicThree}

\* char::len_utf8
len_utf8(c) == IF c = ArabicThree THEN 2 ELSE 1

\* convert_case's character classes: a digit is an ASCII digit
is_digit(c) == c = "1"
is_uppercase(c) == c = "A"
is_lowercase(c) == c = "a"
is_delim(c) == c \in {"_", "-", " "}

to_uppercase(c) == IF c = "a" THEN "A" ELSE c
to_lowercase(c) == IF c = "A" THEN "a" ELSE c

(***************************************************************************)
(* convert_case: Casing::to_case with the default boundaries               *)
(* (Underscore, Hyphen, Space, LowerUpper, UpperDigit, DigitUpper,         *)
(* DigitLower, LowerDigit, Acronym).                                       *)
(***************************************************************************)
\* a boundary between two adjacent characters
detect_two(c, d) ==
    \/ is_lowercase(c) /\ is_uppercase(d)
    \/ is_uppercase(c) /\ is_digit(d)
    \/ is_digit(c) /\ is_uppercase(d)
    \/ is_digit(c) /\ is_lowercase(d)
    \/ is_lowercase(c) /\ is_digit(d)

\* the Acronym boundary: it splits after the first of three characters
detect_three(c, d, e) == is_uppercase(c) /\ is_uppercase(d) /\ is_lowercase(e)

\* what happens at character i: "drop" (a delimiter: split and remove it),
\* "keep" (split after it) or "none"
split_at(str, i) ==
    IF is_delim(str[i]) THEN "drop"
    ELSE IF i + 1 <= Len(str) /\ detect_two(str[i], str[i + 1]) THEN "keep"
    ELSE IF i + 2 <= Len(str) /\ detect_three(str[i], str[i + 1], str[i + 2])
         THEN "keep"
    ELSE "none"

RECURSIVE split_from(_, _, _, _)
split_from(str, i, word, words) ==
    IF i > Len(str) THEN Append(words, word)
    ELSE LET m == split_at(str, i)
         IN  IF m = "none" THEN split_from(str, i + 1, Append(word, str[i]), words)
             ELSE IF m = "drop" THEN split_from(str, i + 1, <<>>, Append(words, word))
             ELSE split_from(str, i + 1, <<>>, Append(words, Append(word, str[i])))

\* segmentation::split: the words of str, the empty words removed
split(str) == SelectSeq(split_from(str, 1, <<>>, <<>>), LAMBDA w : w # <<>>)

\* Pattern::Capital on one word
capital(w) == [i \in 1..Len(w) |-> IF i = 1 THEN to_uppercase(w[i]) ELSE to_lowercase(w[i])]

\* Pattern::Lowercase on one word
lowercase(w) == [i \in 1..Len(w) |-> to_lowercase(w[i])]

RECURSIVE join(_, _)
join(words, delim) ==
    IF words = <<>> THEN <<>>
    ELSE IF Len(words) = 1 THEN words[1]
    ELSE words[1] \o delim \o join(Tail(words), delim)

\* name.to_case(Case::UpperCamel)
to_upper_camel(str) ==
    LET w == split(str) IN join([i \in 1..Len(w) |-> capital(w[i])], <<>>)

\* name.to_case(Case::Snake)
to_snake(str) ==
    LET w == split(str) IN join([i \in 1..Len(w) |-> lowercase(w[i])], <<"_">>)

(***************************************************************************)
(* ParserImpl: the name normalizers.                                       *)
(***************************************************************************)
\* the call did not return: the thread panicked
Panic == <<"!panic">>

\* &name[1..]: a byte slice, which panics unless byte 1 is a char boundary
slice_from_1(str) == IF len_utf8(str[1]) = 1 THEN Tail(str) ELSE Panic

\* name.chars().next().unwrap_or_default().is_numeric()
first_is_numeric(str) == str # <<>> /\ is_numeric(str[1])

\* mutant: the whole name is appended, not the name after its first character
str_to_enum_variant_unsliced(raw) ==
    LET n == to_upper_camel(raw)
    IN  IF first_is_numeric(n)
        THEN IF slice_from_1(n) = Panic THEN Panic
             ELSE <<"_", n[1], "_">> \o n
        ELSE n

\* mutant: the digit test reads the raw name, not its UpperCamel form
str_to_enum_variant_raw_check(raw) ==
    LET n == to_upper_camel(raw)
    IN  IF first_is_numeric(raw)
        THEN IF slice_from_1(n) = Panic THEN Panic
             ELSE <<"_", n[1], "_">> \o slice_from_1(n)
        ELSE n

str_to_enum_variant(raw) ==
    LET n == to_upper_camel(raw)
    IN  IF first_is_numeric(n)
        THEN IF slice_from_1(n) = Panic THEN Panic
             ELSE <<"_", n[1], "_">> \o slice_from_1(n)
        ELSE n

str_to_variable_name(raw) ==
    LET n == IF first_is_numeric(raw) THEN <<"_">> \o raw ELSE raw
    IN  to_snake(n)

(***************************************************************************)
(* Results.  Result<T> is Ok(v) or Err(e); a call that panics returns      *)
(* nothing, recorded as Panicked.                                          *)
(***************************************************************************)
Ok(v) == [kind |-> "Ok", val |-> v]
Err(e) == [kind |-> "Err", val |-> e]
Panicked == [kind |-> "Panic", val |-> "!panic"]

(***************************************************************************)
(* ParserImpl::map_oas3_to_output_type.                                    *)
(***************************************************************************)
\* oas3::spec::SchemaType; Object and Null are the tags of the wildcard arm
SchemaTypes == {"String", "Number", "Integer", "Boolean", "Array", "Object", "Null"}

\* the format hint: the four recognised words, an unrecognised one, or none
Formats == {None, Some("int32"), Some("int64"), Some("float"), Some("double"),
            Some("date")}

\* serde_json::Number: PosInt(u64), NegInt(i64) or Float(f64); val is its value
\* (Float 0 is 0.0, Float 2 is 2.0)
Numbers == {[kind |-> "PosInt", val |-> 0], [kind |-> "PosInt", val |-> 1],
            [kind |-> "NegInt", val |-> -1], [kind |-> "Float", val |-> 0],
            [kind |-> "Float", val |-> 2]}

MinValues == {None} \cup {Some(n) : n \in Numbers}

\* Number::as_i64: None for a Float (the modelled integers all fit an i64)
as_i64(n) == IF n.kind = "Float" THEN None ELSE Some(n.val)

unwrap_or(o, d) == IF o = None THEN d ELSE o[1]

\* let is_unsigned = match min_value { .. }
is_unsigned(min) ==
    IF min = None THEN FALSE ELSE unwrap_or(as_i64(min[1]), -1) = 0

default_int == Ok("i32")

\* mutant: the default float is the narrow one
default_float_narrow == Ok("f32")

default_float == Ok("f64")

\* mutant: an unsupported tag is silently defaulted
unsupported_defaulted(type) == Ok("String")

\* the wildcard arm: Error::Codegen(format!("Unsupported type: {:?}", oas3_type))
unsupported(type) == Err("Unsupported type: " \o type)

map_oas3_to_output_type(type, fmt, min) ==
    CASE type = "String" -> Ok("String")
      [] type = "Number" ->
            IF fmt = None THEN default_float
            ELSE IF fmt[1] = "float" THEN Ok("f32")
            ELSE IF fmt[1] = "double" THEN Ok("f64")
            ELSE default_float
      [] type = "Integer" ->
            IF fmt = None THEN default_int
            ELSE IF fmt[1] = "int32"
                 THEN (IF is_unsigned(min) THEN Ok("u32") ELSE Ok("i32"))
            ELSE IF fmt[1] = "int64"
                 THEN (IF is_unsigned(min) THEN Ok("u64") ELSE Ok("i64"))
            ELSE default_int
      [] type = "Boolean" -> Ok("bool")
      [] type = "Array" -> Ok("Array")
      [] OTHER -> unsupported(type)

(***************************************************************************)
(* Templates (handlebars).  A rendered text is the sequence of its lines;  *)
(* the template starts with a line break, so the first line is empty.  A   *)
(* block tag alone on its line leaves no line behind.  {{x}} escapes the   *)
(* HTML characters of x; the names and types of the model hold none.       *)
(***************************************************************************)
\* the characters of a name as one string
RECURSIVE text_of(_)
text_of(str) == IF str = <<>> THEN "" ELSE str[1] \o text_of(Tail(str))

\* {{#if x}}: None (null) is falsy, and so is the empty string
truthy(o) == o # None /\ o[1] # ""

\* {{type_.Value}} and {{type_.Ref}}: the variant that is absent renders empty
type_path(type_, variant) == IF type_.tag = variant THEN type_.val ELSE ""

\* mutant: the two wrappers are nested the other way round
struct_field_line_swapped(f) ==
    "    pub " \o f.name \o ": "
        \o (IF ~f.required THEN "Option<" ELSE "")
        \o (IF f.is_array THEN "Vec<" ELSE "")
        \o type_path(f.type_, "Value") \o type_path(f.type_, "Ref")
        \o (IF f.is_array THEN ">" ELSE "")
        \o (IF ~f.required THEN ">" ELSE "")
        \o ","

\* line 29 of the template: one field
struct_field_line(f) ==
    "    pub " \o f.name \o ": "
        \o (IF f.is_array THEN "Vec<" ELSE "")
        \o (IF ~f.required THEN "Option<" ELSE "")
        \o type_path(f.type_, "Value") \o type_path(f.type_, "Ref")
        \o (IF ~f.required THEN ">" ELSE "")
        \o (IF f.is_array THEN ">" ELSE "")
        \o ","

\* the body of {{#each fields}}: the doc line, if any, then the field line
struct_field_lines(f) ==
    (IF truthy(f.description) THEN <<"    /// " \o f.description[1]>> ELSE <<>>)
        \o <<struct_field_line(f)>>

\* {{#each fields}} .. {{/each}}
RECURSIVE each_field(_)
each_field(fields) ==
    IF fields = <<>> THEN <<>>
    ELSE struct_field_lines(fields[1]) \o each_field(Tail(fields))

STRUCT_TEMPLATE(st) ==
    <<"", "#[derive(Debug, Clone, PartialEq, Eq, PartialOrd, Ord, Hash)]">>
        \o (IF truthy(st.description) THEN <<"/// " \o st.description[1]>> ELSE <<>>)
        \o <<"pub struct " \o st.name \o " {">>
        \o each_field(st.fields)
        \o <<"}">>

enum_variant_lines(v) ==
    <<"    " \o v.name
        \o (IF truthy(v.value) THEN " = \"" \o v.value[1] \o "\"" ELSE "")
        \o ",">>

\* {{#each variants}} .. {{/each}}
RECURSIVE each_variant(_)
each_variant(variants) ==
    IF variants = <<>> THEN <<>>
    ELSE enum_variant_lines(variants[1]) \o each_variant(Tail(variants))

ENUM_TEMPLATE(e) ==
    <<"", "#[derive(Debug, Clone, Copy, PartialEq, Eq, PartialOrd, Ord, Hash)]">>
        \o (IF truthy(e.description) THEN <<"/// " \o e.description[1]>> ELSE <<>>)
        \o <<"pub enum " \o e.name \o " {">>
        \o each_variant(e.variants)
        \o <<"}">>

\* Templates::render_struct_template: every path of the template is total on a
\* serialized types::Struct, so the render does not fail
render_struct_template(st) == Ok(STRUCT_TEMPLATE(st))

\* Templates::render_enum_template
render_enum_template(e) == Ok(ENUM_TEMPLATE(e))

(***************************************************************************)
(* Schemas.  An ObjectOrReference<Schema> is a bare reference or an object *)
(* with its enumeration literals and its properties, both in declaration   *)
(* order.  A property is a reference to a named schema or an inline schema *)
(* (type tag, format, minimum, and the item type of an array).             *)
(***************************************************************************)
RefShape == [ref |-> Some("Owner"), schema_type |-> "Object", format |-> None,
             minimum |-> None, items |-> None]
IntegerShape == [ref |-> None, schema_type |-> "Integer", format |-> Some("int64"),
                 minimum |-> Some([kind |-> "PosInt", val |-> 0]), items |-> None]
ArrayShape == [ref |-> None, schema_type |-> "Array", format |-> None,
               minimum |-> None, items |-> Some("String")]
ObjectShape == [ref |-> None, schema_type |-> "Object", format |-> None,
                minimum |-> None, items |-> None]

PropertyShapes == {RefShape, IntegerShape, ArrayShape, ObjectShape}

PropertyNames == {<<"a">>, <<"1", "a">>}

Properties == [name : PropertyNames, required : BOOLEAN, shape : PropertyShapes]

Literals == {<<"a">>, <<"1", "a">>, <<ArabicThree>>}

SchemaName == <<"a", "-", "a">>

BareReference == [ref |-> TRUE, name |-> SchemaName, enum_values |-> <<>>,
                  properties |-> <<>>]

Schemas ==
    {BareReference} \cup
    [ref : {FALSE}, name : {SchemaName},
     enum_values : SeqsUpTo(Literals, MaxEnum),
     properties : SeqsUpTo(Properties, MaxProps)]

\* oas3_utils::ObjectOrReference::object_or_error
object_or_error(sch) ==
    IF sch.ref THEN Err("MalformedSchema: expected an object, found a reference")
    ELSE Ok(sch)

\* StructBuilder, step 1 and 2: the field type of one property
field_type(p) ==
    IF p.shape.ref # None
    THEN Ok([type_ |-> [tag |-> "Ref", val |-> p.shape.ref[1]], is_array |-> FALSE])
    ELSE IF p.shape.schema_type = "Array"
    THEN LET t == map_oas3_to_output_type(p.shape.items[1], None, None)
         IN  IF t.kind = "Ok"
             THEN Ok([type_ |-> [tag |-> "Value", val |-> t.val], is_array |-> TRUE])
             ELSE t
    ELSE LET t == map_oas3_to_output_type(p.shape.schema_type, p.shape.format,
                                          p.shape.minimum)
         IN  IF t.kind = "Ok"
             THEN Ok([type_ |-> [tag |-> "Value", val |-> t.val], is_array |-> FALSE])
             ELSE t

\* StructBuilder: the fields of the properties, in declaration order, or the
\* first error
RECURSIVE build_fields(_, _)
build_fields(props, acc) ==
    IF props = <<>> THEN Ok(acc)
    ELSE LET p == props[1]
             t == field_type(p)
         IN  IF t.kind # "Ok" THEN t
             ELSE build_fields(Tail(props),
                      Append(acc, [name |-> text_of(str_to_variable_name(p.name)),
                                   description |-> None,
                                   type_ |-> t.val.type_,
                                   required |-> p.required,
                                   is_array |-> t.val.is_array]))

\* Parser::parse_struct
parse_struct(n, sch) ==
    LET f == build_fields(sch.properties, <<>>)
    IN  IF f.kind # "Ok" THEN f
        ELSE Ok([name |-> text_of(to_upper_camel(n)), description |-> None,
                 fields |-> f.val])

\* EnumBuilder: the variants of the literals, in declaration order; a panic of
\* the normalizer ends the call
RECURSIVE build_variants(_, _)
build_variants(lits, acc) ==
    IF lits = <<>> THEN Ok(acc)
    ELSE LET v == str_to_enum_variant(lits[1])
         IN  IF v = Panic THEN Panicked
             ELSE build_variants(Tail(lits),
                      Append(acc, [name |-> text_of(v),
                                   value |-> IF v = lits[1] THEN None
                                             ELSE Some(text_of(lits[1]))]))

\* Parser::parse_enum
parse_enum(sch) ==
    LET v == build_variants(sch.enum_values, <<>>)
    IN  IF v.kind # "Ok" THEN v
        ELSE Ok([name |-> text_of(to_upper_camel(sch.name)), description |-> None,
                 variants |-> v.val])

\* one entry of the call log: the function called and what it returned
Call(fn, r) == [fn |-> fn, result |-> r]

(***************************************************************************)
(* ParserImpl::parse_struct_or_enum: the calls it makes and what it        *)
(* returns.  The ? operator returns the error of a failed call at once.    *)
(***************************************************************************)
\* mutant: a schema is a struct when it has properties
properties_not_empty(obj) == obj.properties # <<>>

\* obj.enum_values.is_empty()
enum_values_is_empty(obj) == obj.enum_values = <<>>

\* mutant: a failed build is rendered as the empty struct (no ? on the build)
struct_arm_unchecked(sch, log) ==
    LET st == parse_struct(sch.name, sch)
        ir == IF st.kind = "Ok" THEN st.val
              ELSE [name |-> "", description |-> None, fields |-> <<>>]
        r == render_struct_template(ir)
    IN  [calls |-> log \o <<Call("parse_struct", st),
                            Call("render_struct_template", r)>>,
         ret |-> r]

\* the struct arm: let s = Self::parse_struct(..)?; render_struct_template(&s)
struct_arm(sch, log) ==
    LET st == parse_struct(sch.name, sch)
    IN  IF st.kind # "Ok"
        THEN [calls |-> Append(log, Call("parse_struct", st)), ret |-> st]
        ELSE LET r == render_struct_template(st.val)
             IN  [calls |-> log \o <<Call("parse_struct", st),
                                     Call("render_struct_template", r)>>,
                  ret |-> r]

\* the enum arm: let e = Self::parse_enum(..)?; render_enum_template(&e)
enum_arm(sch, log) ==
    LET e == parse_enum(sch)
    IN  IF e.kind # "Ok"
        THEN [calls |-> Append(log, Call("parse_enum", e)), ret |-> e]
        ELSE LET r == render_enum_template(e.val)
             IN  [calls |-> log \o <<Call("parse_enum", e),
                                     Call("render_enum_template", r)>>,
                  ret |-> r]

parse_struct_or_enum(sch) ==
    LET obj == object_or_error(sch)
        log == <<Call("object_or_error", obj)>>
    IN  IF obj.kind # "Ok" THEN [calls |-> log, ret |-> obj]
        ELSE IF enum_values_is_empty(obj.val) THEN struct_arm(sch, log)
        ELSE enum_arm(sch, log)

(***************************************************************************)
(* The IR structs handed to render_struct_template directly.               *)
(***************************************************************************)
FieldTypes == {[tag |-> "Value", val |-> "i32"], [tag |-> "Ref", val |-> "Owner"]}

StructFields == [name : {"x", "y"}, description : {None, Some("doc")},
                 type_ : FieldTypes, required : BOOLEAN, is_array : BOOLEAN]

Structs == [name : {"Point"}, description : {None, Some("Description")},
            fields : SeqsUpTo(StructFields, MaxFields)]

(***************************************************************************)
(* The state machine.                                                      *)
(***************************************************************************)
Init ==
    /\ names = <<>> /\ calls = <<>> /\ ret = None
    /\ op \in {"str_to_enum_variant", "str_to_variable_name",
               "map_oas3_to_output_type", "parse_struct_or_enum",
               "render_struct_template"}
    /\ name \in IF op \in {"str_to_enum_variant", "str_to_variable_name"}
                THEN Strings ELSE {<<>>}
    /\ oas3_type \in IF op = "map_oas3_to_output_type" THEN SchemaTypes ELSE {"String"}
    /\ format \in IF op = "map_oas3_to_output_type" THEN Formats ELSE {None}
    /\ min_value \in IF op = "map_oas3_to_output_type" THEN MinValues ELSE {None}
    /\ schema \in IF op = "parse_struct_or_enum" THEN Schemas ELSE {BareReference}
    /\ s \in IF op = "render_struct_template" THEN Structs
             ELSE {[name |-> "Point", description |-> None, fields |-> <<>>]}

\* the string the normalizer is applied to next: the raw name, then its result
current == IF names = <<>> THEN name ELSE names[Len(names)]

\* a normalizer can be called (again) while the last call returned
can_normalize == Len(names) < MaxApply /\ current # Panic

StrToEnumVariant ==
    /\ op = "str_to_enum_variant"
    /\ can_normalize
    /\ names' = Append(names, str_to_enum_variant(current))
    /\ UNCHANGED <<op, name, oas3_type, format, min_value, schema, s, calls, ret>>

StrToVariableName ==
    /\ op = "str_to_variable_name"
    /\ can_normalize
    /\ names' = Append(names, str_to_variable_name(current))
    /\ UNCHANGED <<op, name, oas3_type, format, min_value, schema, s, calls, ret>>

MapOas3ToOutputType ==
    /\ op = "map_oas3_to_output_type"
    /\ ret = None
    /\ ret' = Some(map_oas3_to_output_type(oas3_type, format, min_value))
    /\ UNCHANGED <<op, name, names, oas3_type, format, min_value, schema, s, calls>>

ParseStructOrEnum ==
    /\ op = "parse_struct_or_enum"
    /\ ret = None
    /\ LET r == parse_struct_or_enum(schema)
       IN  calls' = r.calls /\ ret' = Some(r.ret)
    /\ UNCHANGED <<op, name, names, oas3_type, format, min_value, schema, s>>

RenderStructTemplate ==
    /\ op = "render_struct_template"
    /\ ret = None
    /\ ret' = Some(render_struct_template(s))
    /\ UNCHANGED <<op, name, names, oas3_type, format, min_value, schema, s, calls>>

Next ==
    \/ StrToEnumVariant
    \/ StrToVariableName
    \/ MapOas3ToOutputType
    \/ ParseStructOrEnum
    \/ RenderStructTemplate

Spec == Init /\ [][Next]_vars

(***************************************************************************)
(* Vocabulary of the properties.                                           *)
(***************************************************************************)
Normalized(o) == op = o /\ names # <<>>
Returned(o) == op = o /\ ret # None

Supported == {"String", "Number", "Integer", "Boolean", "Array"}
UnsignedTypes == {"u32", "u64"}
SignedTypes == {"i32", "i64"}

\* the bit width a numeric type name states
bits(t) == CASE t \in {"i32", "u32", "f32"} -> 32
             [] t \in {"i64", "u64", "f64"} -> 64
             [] OTHER -> 0

\* ASCII letters, digits, space, hyphen and underscore only
Ascii(str) == \A i \in DOMAIN str : str[i] # ArabicThree

is_letter(c) == c \in {"a", "A"}

\* the characters of str that are not separators, lower-cased
content(str) ==
    LET kept == SelectSeq(str, LAMBDA c : ~is_delim(c))
    IN  [i \in DOMAIN kept |-> to_lowercase(kept[i])]

\* the first character of str that is not a separator, as an Option
first_non_delim(str) ==
    LET kept == SelectSeq(str, LAMBDA c : ~is_delim(c))
    IN  IF kept = <<>> THEN None ELSE Some(kept[1])

\* two adjacent words of str are one letter each
adjacent_one_letter_words(str) ==
    LET w == split(str)
    IN  \E j \in 1..(Len(w) - 1) :
            /\ Len(w[j]) = 1 /\ is_letter(w[j][1])
            /\ Len(w[j + 1]) = 1 /\ is_letter(w[j + 1][1])

\* the string the i-th application of the normalizer was given
given(i) == IF i = 1 THEN name ELSE names[i - 1]

(***************************************************************************)
(* C1.  For schema type Integer, map_oas3_to_output_type returns an        *)
(* unsigned type exactly when the minimum is present and numerically zero, *)
(* and a signed type otherwise, whatever the format hint is.               *)
(***************************************************************************)
C1_UnsignedIffMinimumZero ==
    (Returned("map_oas3_to_output_type") /\ oas3_type = "Integer") =>
        /\ ret[1].kind = "Ok"
        /\ ret[1].val \in UnsignedTypes \cup SignedTypes
        /\ ret[1].val \in UnsignedTypes <=> (min_value # None /\ min_value[1].val = 0)

(***************************************************************************)
(* C2.  The width of a numeric result depends on the type and the format   *)
(* only: Number gives f32 iff the format is "float" and f64 otherwise;     *)
(* Integer gives a 64-bit type iff the format is "int64" and a 32-bit type *)
(* otherwise.  The minimum never changes the width.                        *)
(***************************************************************************)
C2_WidthByTypeAndFormat ==
    Returned("map_oas3_to_output_type") =>
        /\ oas3_type = "Number" =>
              ret[1] = Ok(IF format = Some("float") THEN "f32" ELSE "f64")
        /\ oas3_type = "Integer" =>
              /\ ret[1].kind = "Ok"
              /\ ret[1].val \in UnsignedTypes \cup SignedTypes
              /\ bits(ret[1].val) = IF format = Some("int64") THEN 64 ELSE 32

\* an int64 with minimum 0: the minimum changed the sign and not the width
C2_Witness ==
    /\ Returned("map_oas3_to_output_type")
    /\ oas3_type = "Integer" /\ format = Some("int64")
    /\ min_value = Some([kind |-> "PosInt", val |-> 0])
    /\ ret[1] = Ok("u64")

(***************************************************************************)
(* C3.  map_oas3_to_output_type returns Ok exactly for the tags String,    *)
(* Number, Integer, Boolean and Array, and for every other tag an error    *)
(* that names the tag; String, Boolean and Array give "String", "bool" and *)
(* "Array".  None of this depends on the format or the minimum.            *)
(***************************************************************************)
C3_OkExactlyForSupportedTags ==
    Returned("map_oas3_to_output_type") =>
        /\ ret[1].kind = "Ok" <=> oas3_type \in Supported
        /\ oas3_type \notin Supported =>
              ret[1] = Err("Unsupported type: " \o oas3_type)
        /\ oas3_type = "String" => ret[1] = Ok("String")
        /\ oas3_type = "Boolean" => ret[1] = Ok("bool")
        /\ oas3_type = "Array" => ret[1] = Ok("Array")

\* an unsupported tag that carries both hints
C3_Witness ==
    /\ Returned("map_oas3_to_output_type")
    /\ oas3_type = "Null" /\ format = Some("int64")
    /\ min_value = Some([kind |-> "PosInt", val |-> 0])
    /\ ret[1].kind = "Err"

(***************************************************************************)
(* C4.  parse_struct_or_enum sends every resolvable schema down exactly    *)
(* one path: a schema with a non-empty enumeration list is built by        *)
(* parse_enum and rendered by render_enum_template, never by the struct    *)
(* functions; a schema with an empty list is built by parse_struct and     *)
(* rendered by render_struct_template, never by the enum functions, also   *)
(* when it has no property.  The render of the path follows whenever the   *)
(* build returned Ok.                                                      *)
(***************************************************************************)
called(fn) == \E i \in DOMAIN calls : calls[i].fn = fn
built_ok(fn) == \E i \in DOMAIN calls : calls[i].fn = fn /\ calls[i].result.kind = "Ok"

Renders == {"render_struct_template", "render_enum_template"}
build_of(render) ==
    IF render = "render_struct_template" THEN "parse_struct" ELSE "parse_enum"

C5_RenderOnlyAfterBuild ==
    Returned("parse_struct_or_enum") =>
        LET R == {i \in DOMAIN calls : calls[i].fn \in Renders}
        IN  /\ Cardinality(R) <= 1
            /\ \A i \in R :
                  /\ i > 1
                  /\ calls[i - 1].fn = build_of(calls[i].fn)
                  /\ calls[i - 1].result.kind = "Ok"
            /\ \A i \in DOMAIN calls :
                  calls[i].result.kind = "Err" =>
                      /\ R = {}
                      /\ ret[1] = calls[i].result
                      /\ ret[1].kind = "Err"

\* a struct build that failed on a property after a good one
C5_Witness ==
    /\ Returned("parse_struct_or_enum")
    /\ Len(schema.properties) = 2
    /\ schema.properties[1].shape = IntegerShape
    /\ schema.properties[2].shape = ObjectShape
    /\ \E i \in DOMAIN calls :
          calls[i].fn = "parse_struct" /\ calls[i].result.kind = "Err"

(***************************************************************************)
(* C6.  For every raw name whose first character is a digit,               *)
(* str_to_variable_name returns a name that begins with an underscore and  *)
(* not with a digit.                                                       *)
(***************************************************************************)
C6_DigitFirstFieldNameIsLegal ==
    (Normalized("str_to_variable_name") /\ name # <<>> /\ is_numeric(name[1])) =>
        /\ names[1] # <<>>
        /\ names[1][1] = "_"
        /\ ~is_numeric(names[1][1])

(***************************************************************************)
(* C7, as stated.  Both normalizers are idempotent: normalizing a result   *)
(* again returns the same name.  (Stated for the ASCII inputs only.)       *)
(***************************************************************************)
C7_Idempotent ==
    (op \in {"str_to_enum_variant", "str_to_variable_name"} /\ Ascii(name)) =>
        \A i \in 2..Len(names) : names[i] = names[i - 1]

(***************************************************************************)
(* C7, amended.  On names made of ASCII letters, digits, spaces, hyphens   *)
(* and underscores, str_to_variable_name is idempotent, digit-first names  *)
(* included; str_to_enum_variant is idempotent on a name exactly when no   *)
(* two adjacent words of the name are one letter each.                     *)
(***************************************************************************)
C7_IdempotentExceptOneLetterWords ==
    \A i \in 2..Len(names) :
        Ascii(given(i - 1)) =>
            /\ op = "str_to_variable_name" => names[i] = names[i - 1]
            /\ op = "str_to_enum_variant" =>
                  (names[i] = names[i - 1] <=> ~adjacent_one_letter_words(given(i - 1)))

\* a digit-first name, normalized twice by str_to_enum_variant
C7_Witness ==
    /\ op = "str_to_enum_variant"
    /\ name = <<"1", "a", "a">>
    /\ Len(names) = 2
    /\ names[1] = <<"_", "1", "_", "A", "a">>
    /\ names[2] = names[1]

(***************************************************************************)
(* C8, as stated.  str_to_enum_variant returns the UpperCamel form of the  *)
(* name without its separators; when the first character of the name is a  *)
(* digit d the result is "_", d, "_" and the capitalized rest, and when it *)
(* is not a digit no underscore is added.  (Stated for the ASCII inputs.)  *)
(***************************************************************************)
\* the words of r start with a capital: a lower-case letter follows a letter
upper_camel(r) ==
    \A i \in DOMAIN r : is_lowercase(r[i]) => (i > 1 /\ is_letter(r[i - 1]))

\* r is raw in UpperCamel form without separators, after "_", d, "_" when the
\* digit d (an Option) is given
variant_form(r, raw, d) ==
    /\ \A i \in DOMAIN r : r[i] \notin {" ", "-"}
    /\ content(r) = content(raw)
    /\ upper_camel(r)
    /\ IF d # None
       THEN /\ Len(r) >= 3
            /\ r[1] = "_" /\ r[2] = d[1] /\ r[3] = "_"
            /\ \A i \in 4..Len(r) : r[i] # "_"
       ELSE \A i \in DOMAIN r : r[i] # "_"

C8_PrefixIffRawStartsWithDigit ==
    (Normalized("str_to_enum_variant") /\ Ascii(name)) =>
        variant_form(names[1], name,
                     IF name # <<>> /\ is_digit(name[1]) THEN Some(name[1]) ELSE None)

(***************************************************************************)
(* C8, amended.  On names made of ASCII letters, digits, spaces, hyphens   *)
(* and underscores, str_to_enum_variant returns the UpperCamel form of the *)
(* name without its separators; when the first character of that form,     *)
(* which is the first character of the name that is not a separator, is a  *)
(* digit d, the result is "_", d, "_" and the capitalized rest; otherwise  *)
(* no underscore is added.                                                 *)
(***************************************************************************)
C8_PrefixIffFormStartsWithDigit ==
    (Normalized("str_to_enum_variant") /\ Ascii(name)) =>
        LET fc == first_non_delim(name)
        IN  variant_form(names[1], name,
                         IF fc # None /\ is_digit(fc[1]) THEN fc ELSE None)

\* "1test": the digit, between underscores, and the capitalized rest
C8_Witness ==
    /\ Normalized("str_to_enum_variant")
    /\ name = <<"1", "a", "a", "a">>
    /\ names[1] = <<"_", "1", "_", "A", "a", "a">>

(***************************************************************************)
(* C9.  str_to_enum_variant never fails: it returns a name for every       *)
(* string, the empty string and the strings that begin with any numeric    *)
(* character included.                                                     *)
(***************************************************************************)
C9_NeverFails ==
    Normalized("str_to_enum_variant") => names[1] # Panic

(***************************************************************************)
(* C10.  render_struct_template emits one field line per field of the IR,  *)
(* in the order of the IR, and wraps the type name T of a field by its two *)
(* flags only: T, Option<T>, Vec<T> or Vec<Option<T>>.  A struct without   *)
(* fields renders an empty body and no error.                              *)
(***************************************************************************)
\* the type of a field as the claim's table gives it
wrapped(f) ==
    CASE f.required /\ ~f.is_array -> f.type_.val
      [] ~f.required /\ ~f.is_array -> "Option<" \o f.type_.val \o ">"
      [] f.required /\ f.is_array -> "Vec<" \o f.type_.val \o ">"
      [] ~f.required /\ f.is_array -> "Vec<Option<" \o f.type_.val \o ">>"

\* the lines a field takes: its doc line, if it has one, and its field line
lines_of(f) == IF f.description = None THEN 1 ELSE 2

\* the lines before the first field: the empty line, the derive line, the doc
\* line of the struct, if any, and the opening line
head_lines(st) == IF st.description = None THEN 3 ELSE 4

\* the line of the text that holds field i
RECURSIVE field_line_at(_, _)
field_line_at(st, i) ==
    IF i = 0 THEN head_lines(st)
    ELSE field_line_at(st, i - 1) + lines_of(st.fields[i])

C10_FieldLinesInOrder ==
    Returned("render_struct_template") =>
        /\ ret[1].kind = "Ok"
        /\ LET text == ret[1].val
               n == Len(s.fields)
           IN  /\ Len(text) = field_line_at(s, n) + 1
               /\ text[head_lines(s)] = "pub struct " \o s.name \o " {"
               /\ text[Len(text)] = "}"
               /\ \A i \in 1..n :
                     text[field_line_at(s, i)] =
                         "    pub " \o s.fields[i].name \o ": "
                             \o wrapped(s.fields[i]) \o ","

\* two fields, y before x, the first an optional array
C10_Witness ==
    /\ Returned("render_struct_template")
    /\ Len(s.fields) = 2
    /\ s.fields[1].name = "y" /\ s.fields[2].name = "x"
    /\ ~s.fields[1].required /\ s.fields[1].is_array
    /\ s.fields[1].type_.tag = "Value"
    /\ \E i \in DOMAIN ret[1].val : ret[1].val[i] = "    pub y: Vec<Option<i32>>,"

====
